---- MODULE Spec2Model ----
(***************************************************************************)
(* Block-range selection of the editor (src/src/selection-handler.js).     *)
(* The SelectionHandler keeps startIndex, endIndex and the selecting flag, *)
(* listens to the "selection:*" bus events and to the host's keydown and   *)
(* mouseup events, and reads the ordered block list of the editor.         *)
(* Indices are the 0-based positions of the JavaScript code; the block at  *)
(* position i is blocks[i + 1].                                            *)
(***************************************************************************)
EXTENDS Integers, Sequences, FiniteSets, TLC

\* Largest number of blocks the document holds.
MaxBlocks == 3

\* The pool of block identifiers; the first MaxBlocks of them are in use.
AllIDs == <<"A", "B", "C", "D", "E", "F", "G", "H">>

BlockIDs == {AllIDs[i] : i \in 1..MaxBlocks}

VARIABLES
  blocks,      \* editor.getBlocks(): sequence of [blockID, selected]
  startIndex,  \* this.startIndex
  endIndex,    \* this.endIndex
  selecting,   \* this.selecting
  mouseDown,   \* window.mouseDown
  copyArea,    \* whether document.body holds the .st-copy-area element
  innerHTML,   \* what the last handler assigned to copyArea.innerHTML
  last,        \* the event handled last
  trace,       \* bus events published and host calls made by that handler
  fault        \* the error that handler threw, "none" when it returned

vars ==
  <<blocks, startIndex, endIndex, selecting, mouseDown, copyArea, innerHTML, last, trace, fault>>

----------------------------------------------------------------------------
\* Small helpers.

Min(a, b) == IF a < b THEN a ELSE b

Max(a, b) == IF a > b THEN a ELSE b

\* A bus publication or host call as it is recorded in trace.
Ev(name) == [name |-> name, blockID |-> "-", opt |-> "-"]

EvBlock(name, id, opt) == [name |-> name, blockID |-> id, opt |-> opt]

emit(s, e) == [s EXCEPT !.trace = Append(@, e)]

throw(s, err) == [s EXCEPT !.fault = err]

\* The handler's view of the program state at the start of an event.
Begin ==
  [blocks |-> blocks, startIndex |-> startIndex, endIndex |-> endIndex,
   selecting |-> selecting, mouseDown |-> mouseDown, copyArea |-> copyArea,
   innerHTML |-> <<>>, trace |-> <<>>, fault |-> "none"]

\* The event an update or a cancel is paired with: an update that comes
\* right after a start, a cancel that comes right after a cancel.
pairedWith(op) ==
  IF op = "update" THEN "start" ELSE IF op = "cancel" THEN "cancel" ELSE "-"

\* The program state after the handler of event ev ended in state s.
Commit(s, ev) ==
  \E r \in {s} :
    /\ blocks' = r.blocks
    /\ startIndex' = r.startIndex
    /\ endIndex' = r.endIndex
    /\ selecting' = r.selecting
    /\ mouseDown' = r.mouseDown
    /\ copyArea' = r.copyArea
    /\ innerHTML' = r.innerHTML
    /\ trace' = r.trace
    /\ fault' = r.fault
    /\ last' = [ev EXCEPT !.follows = (last.op = pairedWith(ev.op)),
                          !.active = selecting]

\* An event record; the fields an event does not use hold "-" or -9.
\* follows and active (whether the selection was active when the event
\* arrived) are set when the event is handled: see Commit.
Event(op) ==
  [op |-> op, index |-> -9, blockID |-> "-", key |-> "-", ctrl |-> FALSE,
   shift |-> FALSE, alt |-> FALSE, flag |-> FALSE, follows |-> FALSE,
   active |-> FALSE]

----------------------------------------------------------------------------
\* The Range Model accessors.

getStartIndex(s) == Min(s.startIndex, s.endIndex)

\* getEndIndex without the Math.max: the focus index as it is.
getEndIndexRaw(s) == s.endIndex

getEndIndex(s) == Max(s.startIndex, s.endIndex)

indexSelected(s, index) == index >= getStartIndex(s) /\ index <= getEndIndex(s)

\* editor.getBlocks().length
length(s) == Len(s.blocks)

\* editor.getBlocks()[index]: the block, or undefined outside 0..length-1.
Undefined == [blockID |-> "undefined", selected |-> FALSE]

blockAt(s, index) ==
  IF index >= 0 /\ index < length(s) THEN s.blocks[index + 1] ELSE Undefined

getStartBlock(s) == blockAt(s, getStartIndex(s))

getEndBlock(s) == blockAt(s, getEndIndex(s))

----------------------------------------------------------------------------
\* The handlers of the bus events.

\* render without the this.selecting test: every position of the interval
\* is highlighted, active or not.
renderIgnoringActive(s) ==
  [s EXCEPT !.blocks =
     [i \in 1..Len(s.blocks) |->
        [s.blocks[i] EXCEPT !.selected = indexSelected(s, i - 1)]]]

render(s) ==
  [s EXCEPT !.blocks =
     [i \in 1..Len(s.blocks) |->
        [s.blocks[i] EXCEPT !.selected = s.selecting /\ indexSelected(s, i - 1)]]]

\* this.mediator.trigger("selection:render"): the bus calls render at once.
triggerRender(s) == render(emit(s, Ev("selection:render")))

start(s, index, mouseEnabled) ==
  LET s1 == [s EXCEPT !.startIndex = index, !.endIndex = index, !.selecting = TRUE]
      s2 == triggerRender(s1)
  IN  IF mouseEnabled
        THEN emit([s2 EXCEPT !.mouseDown = TRUE], Ev("addEventListener:mousemove"))
        ELSE s2

\* startAtEnd that starts at the end of the selection, not of the document.
startAtHighIndex(s) == start(s, getEndIndex(s), FALSE)

startAtEnd(s) == start(s, length(s) - 1, FALSE)

\* update with the upper bound off by one: index = length passes.
updateOffByOne(s, index) ==
  IF index < 0 \/ index > length(s)
    THEN s
    ELSE triggerRender([s EXCEPT !.endIndex = index])

update(s, index) ==
  IF index < 0 \/ index >= length(s)
    THEN s
    ELSE triggerRender([s EXCEPT !.endIndex = index])

expand(s, offset) == update(s, s.endIndex + offset)

expandToStart(s) == update(s, 0)

expandToEnd(s) == update(s, length(s) - 1)

focusAtEnd(s) ==
  IF blockAt(s, s.endIndex) = Undefined
    THEN throw(s, "TypeError")
    ELSE emit(s, EvBlock("scrollIntoView", blockAt(s, s.endIndex).blockID, "smooth"))

\* complete that also ends the selection.
completeDeactivating(s) ==
  emit([s EXCEPT !.selecting = FALSE], Ev("removeEventListener:mousemove"))

complete(s) == emit(s, Ev("removeEventListener:mousemove"))

removeNativeSelection(s) == emit(s, Ev("removeNativeSelection"))

all(s) ==
  LET s1 == removeNativeSelection(s)
      s2 == [s1 EXCEPT !.selecting = TRUE, !.startIndex = 0,
                       !.endIndex = length(s1) - 1]
  IN  triggerRender(s2)

\* cancel that also resets the indices.
cancelResetting(s) ==
  render([s EXCEPT !.mouseDown = FALSE, !.selecting = FALSE,
                   !.startIndex = -1, !.endIndex = -1])

cancel(s) == render([s EXCEPT !.mouseDown = FALSE, !.selecting = FALSE])

\* block.asClipboardHTML(): the block's clipboard fragment, one opaque token.
asClipboardHTML(block) == <<block.blockID>>

\* Array.prototype.join: the parts with sep between neighbours.
RECURSIVE join(_, _)
join(parts, sep) ==
  IF Len(parts) = 0 THEN <<>>
  ELSE IF Len(parts) = 1 THEN parts[1]
  ELSE parts[1] \o <<sep>> \o join(Tail(parts), sep)

\* The output array of getClipboardData after the forEach visited the
\* positions 0..n-1.
RECURSIVE clipboardOutput(_, _)
clipboardOutput(s, n) ==
  IF n = 0 THEN <<>>
  ELSE LET output == clipboardOutput(s, n - 1)
       IN  IF indexSelected(s, n - 1)
             THEN Append(output, asClipboardHTML(s.blocks[n]))
             ELSE output

reversed(seq) == [k \in 1..Len(seq) |-> seq[Len(seq) + 1 - k]]

\* getClipboardData that collects in the direction of the gesture, from the
\* anchor to the focus.
getClipboardDataGestureOrder(s) ==
  LET output == clipboardOutput(s, length(s))
  IN  join(IF s.startIndex > s.endIndex THEN reversed(output) ELSE output, "\n")

getClipboardData(s) == join(clipboardOutput(s, length(s)), "\n")

\* copy: hostCopies says whether document.execCommand('copy') returned or
\* threw; the throw is caught and logged.
copy(s, hostCopies) ==
  LET s1 == IF s.copyArea
              THEN s
              ELSE emit([s EXCEPT !.copyArea = TRUE], Ev("appendChild:st-copy-area"))
      s2 == emit(s1, Ev("editor.getData"))
      s3 == emit([s2 EXCEPT !.innerHTML = getClipboardData(s2)], Ev("copyArea.innerHTML"))
      s4 == emit(emit(s3, Ev("selectNodeContents:st-copy-area")),
                 Ev("execCommand:copy"))
  IN  IF hostCopies THEN emit(s4, Ev("copyArea.blur")) ELSE emit(s4, Ev("console.log"))

\* The arguments of the block:remove publication of delete. The callback
\* names its parameter blockEl and reads block.blockID; no binding named
\* block is in scope of the strict-mode module, so evaluating the arguments
\* throws a ReferenceError before anything is published.
removeSelected(s, idx) == throw(s, "ReferenceError")

\* The forEach of delete from position idx on; a throw ends the loop.
RECURSIVE deleteFrom(_, _)
deleteFrom(s, idx) ==
  IF idx >= length(s) \/ s.fault # "none" THEN s
  ELSE deleteFrom(IF indexSelected(s, idx) THEN removeSelected(s, idx) ELSE s, idx + 1)

delete(s) == deleteFrom(s, 0)

\* editor.blockManager.getBlockPosition(block.el): the 0-based position of
\* the block in the document, -1 when the document does not hold it.
getBlockPosition(s, id) ==
  IF \E i \in 1..Len(s.blocks) : s.blocks[i].blockID = id
    THEN (CHOOSE i \in 1..Len(s.blocks) : s.blocks[i].blockID = id) - 1
    ELSE -1

block(s, id) ==
  LET blockPosition == getBlockPosition(s, id)
      s1 == removeNativeSelection(emit(s, Ev("formatter:hide")))
  IN  start(s1, blockPosition, FALSE)

----------------------------------------------------------------------------
\* The host's keydown and mouseup handlers.

\* Dom.getClosest(document.activeElement, 'input') !== document.body
insideInput(focus) == focus = "input"

\* Dom.getClosest(document.activeElement, '.st-outer') === this.wrapper
insideEditor(focus) == focus = "editor"

\* cancelSelectAll: TRUE for the return of true, FALSE for undefined.
cancelSelectAll(opts, focus) ==
  IF insideInput(focus) THEN TRUE
  ELSE IF opts.selectionLimitToEditor /\ ~insideEditor(focus) THEN TRUE
  ELSE FALSE

isDown(key) == key \in {"Down", "ArrowDown"}

isUp(key) == key \in {"Up", "ArrowUp"}

\* mediator.trigger(name, blockAt.blockID, {force: true}): reading .blockID
\* of undefined throws a TypeError.
triggerFocus(s, name, target) ==
  IF target = Undefined
    THEN throw(s, "TypeError")
    ELSE emit(s, EvBlock(name, target.blockID, "force"))

\* focusAtEnd after a range change that returned.
thenFocusAtEnd(s) == IF s.fault # "none" THEN s ELSE focusAtEnd(s)

\* The Down branch of onKeyDown, taken while selecting.
onDownArrow(s, e) ==
  LET s0 == emit(s, Ev("preventDefault"))
  IN  IF e.shift /\ e.alt THEN thenFocusAtEnd(expandToEnd(s0))
      ELSE IF e.shift THEN thenFocusAtEnd(expand(s0, 1))
      ELSE IF e.alt THEN thenFocusAtEnd(startAtEnd(s0))
      ELSE LET s1 == cancel(s0)
           IN  triggerFocus(s1, "block:focusNext", getEndBlock(s1))

\* The Up branch of onKeyDown, taken while selecting.
onUpArrow(s, e) ==
  LET s0 == emit(s, Ev("preventDefault"))
  IN  IF e.shift /\ e.alt THEN thenFocusAtEnd(expandToStart(s0))
      ELSE IF e.shift THEN thenFocusAtEnd(expand(s0, -1))
      ELSE IF e.alt THEN thenFocusAtEnd(start(s0, 0, FALSE))
      ELSE LET s1 == cancel(s0)
           IN  triggerFocus(s1, "block:focusPrevious", getStartBlock(s1))

\* onArrowKey without the this.selecting test of the two branches.
onArrowKeyUnguarded(s, e) ==
  IF isDown(e.key) THEN onDownArrow(s, e)
  ELSE IF isUp(e.key) THEN onUpArrow(s, e)
  ELSE s

\* The branches of onKeyDown for a key pressed without Ctrl/Meta.
onArrowKey(s, e) ==
  IF s.selecting /\ isDown(e.key) THEN onDownArrow(s, e)
  ELSE IF s.selecting /\ isUp(e.key) THEN onUpArrow(s, e)
  ELSE s

onKeyDown(s, e, opts, focus, hostCopies) ==
  IF e.ctrl THEN
    IF opts.selectionCopy /\ e.key = "a" THEN
      IF cancelSelectAll(opts, focus) THEN s
      ELSE all(emit(emit(s, Ev("preventDefault")), Ev("selection:all")))
    ELSE IF opts.selectionCopy /\ e.key = "c" THEN
      IF ~s.selecting THEN s
      ELSE copy(emit(emit(s, Ev("preventDefault")), Ev("selection:copy")), hostCopies)
    ELSE IF opts.selectionDelete /\ e.key = "x" THEN
      delete(emit(s, Ev("selection:delete")))
    ELSE s
  ELSE onArrowKey(s, e)

\* onMouseUp that publishes selection:cancel before selection:complete.
onMouseUpCancelFirst(s) ==
  IF ~s.mouseDown
    THEN complete(emit(cancel(emit(s, Ev("selection:cancel"))), Ev("selection:complete")))
    ELSE complete(emit([s EXCEPT !.mouseDown = FALSE], Ev("selection:complete")))

onMouseUp(s) ==
  IF ~s.mouseDown
    THEN cancel(emit(complete(emit(s, Ev("selection:complete"))), Ev("selection:cancel")))
    ELSE complete(emit([s EXCEPT !.mouseDown = FALSE], Ev("selection:complete")))

----------------------------------------------------------------------------
\* The Block Sequence: blocks are removed and inserted by the block manager.

removeAt(seq, i) == SubSeq(seq, 1, i - 1) \o SubSeq(seq, i + 1, Len(seq))

insertAt(seq, i, x) == SubSeq(seq, 1, i - 1) \o <<x>> \o SubSeq(seq, i, Len(seq))

rank(id) == CHOOSE i \in 1..Len(AllIDs) : AllIDs[i] = id

usedIDs(seq) == {seq[i].blockID : i \in 1..Len(seq)}

----------------------------------------------------------------------------

Init ==
  /\ \E n \in 0..MaxBlocks :
       blocks = [i \in 1..n |-> [blockID |-> AllIDs[i], selected |-> FALSE]]
  /\ startIndex = 0
  /\ endIndex = 0
  /\ selecting = FALSE
  /\ mouseDown = FALSE
  /\ copyArea = FALSE
  /\ innerHTML = <<>>
  /\ last = Event("init")
  /\ trace = <<>>
  /\ fault = "none"

\* selection:start published by a block with its own position.
BusStart ==
  \E index \in 0..(Len(blocks) - 1), mouseEnabled \in BOOLEAN :
    Commit(start(Begin, index, mouseEnabled),
           [Event("start") EXCEPT !.index = index, !.flag = mouseEnabled])

\* selection:update with the position the pointer reports.
BusUpdate ==
  \E index \in -1..Len(blocks) :
    Commit(update(Begin, index), [Event("update") EXCEPT !.index = index])

BusAll == Commit(all(Begin), Event("all"))

BusCancel == Commit(cancel(Begin), Event("cancel"))

BusComplete == Commit(complete(Begin), Event("complete"))

BusRender == Commit(render(Begin), Event("render"))

\* selection:copy; the host's copy command returns or throws.
BusCopy ==
  \E hostCopies \in BOOLEAN :
    Commit(copy(Begin, hostCopies), Event("copy"))

BusDelete == Commit(delete(Begin), Event("delete"))

\* selection:block for a block of the document or for one it does not hold.
BusBlock ==
  \E id \in BlockIDs :
    Commit(block(Begin, id), [Event("block") EXCEPT !.blockID = id])

ChordKeys == {"a", "c", "x", "ArrowDown", "ArrowUp", "Enter"}

ArrowKeys == {"ArrowDown", "ArrowUp"}

\* The key presses the host delivers: Ctrl/Meta chords, the arrow keys with
\* every combination of Shift and Alt, and a key the handler does not name.
KeyEvents ==
  {[Event("keydown") EXCEPT !.key = key, !.ctrl = TRUE] : key \in ChordKeys}
    \cup {[Event("keydown") EXCEPT !.key = key, !.shift = shift, !.alt = alt] :
            key \in ArrowKeys, shift \in BOOLEAN, alt \in BOOLEAN}
    \cup {[Event("keydown") EXCEPT !.key = "Enter"]}

Options ==
  [selectionCopy : BOOLEAN, selectionDelete : BOOLEAN, selectionLimitToEditor : BOOLEAN]

NoOptions ==
  [selectionCopy |-> FALSE, selectionDelete |-> FALSE, selectionLimitToEditor |-> FALSE]

Focus == {"input", "editor", "page"}

\* The inputs onKeyDown reads for event e: of this.options, selectionCopy
\* on the chords a and c, selectionLimitToEditor on the chord a and
\* selectionDelete on the chord x; document.activeElement on the chord a;
\* the outcome of the host's copy command on the chord c. What the handler
\* does not read is held fixed.
OptionsRead(e) ==
  IF ~e.ctrl THEN {NoOptions}
  ELSE IF e.key = "a" THEN {o \in Options : ~o.selectionDelete}
  ELSE IF e.key = "c" THEN {o \in Options : ~o.selectionDelete /\ ~o.selectionLimitToEditor}
  ELSE IF e.key = "x" THEN {o \in Options : ~o.selectionCopy /\ ~o.selectionLimitToEditor}
  ELSE {NoOptions}

FocusRead(e) == IF e.ctrl /\ e.key = "a" THEN Focus ELSE {"editor"}

HostCopyRead(e) == IF e.ctrl /\ e.key = "c" THEN BOOLEAN ELSE {TRUE}

KeyDown ==
  \E e \in KeyEvents :
    \E opts \in OptionsRead(e), focus \in FocusRead(e), hostCopies \in HostCopyRead(e) :
      Commit(onKeyDown(Begin, e, opts, focus, hostCopies), e)

MouseUp == Commit(onMouseUp(Begin), Event("mouseup"))

\* The block manager removes the block at position index.
BlockRemoved ==
  \E index \in 0..(Len(blocks) - 1) :
    Commit([Begin EXCEPT !.blocks = removeAt(blocks, index + 1)],
           [Event("blockRemoved") EXCEPT !.index = index])

\* The block manager inserts a new, unselected block. Identifiers are opaque
\* to the handler, so the document keeps them in the order of AllIDs: the
\* new block takes an unused identifier and the position that order gives it.
BlockAdded ==
  /\ Len(blocks) < MaxBlocks
  /\ \E id \in BlockIDs \ usedIDs(blocks) :
       LET index == Cardinality({k \in 1..Len(blocks) : rank(blocks[k].blockID) < rank(id)})
       IN  Commit([Begin EXCEPT !.blocks =
                     insertAt(blocks, index + 1, [blockID |-> id, selected |-> FALSE])],
                  [Event("blockAdded") EXCEPT !.index = index, !.blockID = id])

Next ==
  \/ BusStart
  \/ BusUpdate
  \/ BusAll
  \/ BusCancel
  \/ BusComplete
  \/ BusRender
  \/ BusCopy
  \/ BusDelete
  \/ BusBlock
  \/ KeyDown
  \/ MouseUp
  \/ BlockRemoved
  \/ BlockAdded

Spec == Init /\ [][Next]_vars

----------------------------------------------------------------------------
\* What the properties speak of.

\* The number of blocks of the document.
blockCount == Len(blocks)

lowIndex == getStartIndex(Begin)

highIndex == getEndIndex(Begin)

\* The test render applies to position i.
contains(i) == selecting /\ indexSelected(Begin, i)

Positions == 0..(blockCount - 1)

InBounds(i) == i >= 0 /\ i < blockCount

published(name) == SelectSeq(trace, LAMBDA e : e.name = name)

\* The handler of the bus event selection:<name> ran in the last event,
\* published on the bus by another component or by onKeyDown.
Handled(name) ==
  \/ last.op = name
  \/ last.op = "keydown" /\ Len(published("selection:" \o name)) > 0

noneHighlighted == \A k \in 1..blockCount : ~blocks[k].selected

\* C1: whenever the selection is active, startIndex and endIndex both lie in
\* [0, blockCount-1].
C1_ActiveIndicesInBounds ==
  selecting => InBounds(startIndex) /\ InBounds(endIndex)

\* C2: after select-all on N blocks, lowIndex = 0, highIndex = N-1 and the
\* selection is active when N >= 1, and the selection is inactive when N = 0.
C2_SelectAll ==
  Handled("all") =>
    IF blockCount >= 1
      THEN lowIndex = 0 /\ highIndex = blockCount - 1 /\ selecting
      ELSE ~selecting

\* C3: while the selection is inactive no consumer treats a block as
\* selected: no block is highlighted, getClipboardData returns no block's
\* serialization and delete publishes no block:remove.
C3_InactiveSelectsNothing ==
  ~selecting =>
    /\ noneHighlighted
    /\ getClipboardData(Begin) = <<>>
    /\ delete(Begin).fault = "none"
    /\ SelectSeq(delete(Begin).trace, LAMBDA e : e.name = "block:remove") = <<>>

\* The removal requests of the blocks at the selected positions, in
\* ascending position order.
RECURSIVE removalsUpTo(_)
removalsUpTo(n) ==
  IF n = 0 THEN <<>>
  ELSE IF lowIndex <= n - 1 /\ n - 1 <= highIndex
    THEN Append(removalsUpTo(n - 1), EvBlock("block:remove", blocks[n].blockID, "focusOnNext"))
    ELSE removalsUpTo(n - 1)

\* C4: bulk delete over an active selection publishes exactly one
\* block:remove per block of [lowIndex, highIndex], with the block's
\* identifier and the focusOnNext hint, in ascending position order.
C4_DeletePublishesInterval ==
  (Handled("delete") /\ selecting) =>
    published("block:remove") = removalsUpTo(blockCount)

\* C5: the identifiers bulk delete requests are those of the blocks that
\* held the selected positions when the delete began: no unselected block
\* is requested and no selected block is skipped.
C5_DeleteTargetsSelected ==
  (Handled("delete") /\ selecting) =>
    {published("block:remove")[k].blockID : k \in 1..Len(published("block:remove"))}
      = {blocks[i + 1].blockID : i \in {j \in Positions : contains(j)}}

\* C6: start(a) followed by update(b), a and b in bounds, gives
\* lowIndex = min(a,b) and highIndex = max(a,b), and position i is selected
\* exactly when min(a,b) <= i <= max(a,b).
C6_IntervalNormalized ==
  [][(last.op = "start" /\ InBounds(last.index)
        /\ last'.op = "update" /\ InBounds(last'.index)) =>
       /\ selecting'
       /\ lowIndex' = Min(last.index, last'.index)
       /\ highIndex' = Max(last.index, last'.index)
       /\ \A i \in Positions :
            /\ contains(i)' <=> (Min(last.index, last'.index) <= i
                                   /\ i <= Max(last.index, last'.index))
            /\ blocks'[i + 1].selected <=> contains(i)']_vars

C6_Witness ==
  /\ last.op = "update"
  /\ last.follows
  /\ selecting
  /\ endIndex = last.index
  /\ endIndex < startIndex
  /\ \E i \in Positions : contains(i)
  /\ \E i \in Positions : ~contains(i)

\* C7: update with an index outside [0, N-1] leaves startIndex, endIndex
\* and the active flag unchanged; the end index is not moved to the boundary.
C7_UpdateOutOfBoundsNoOp ==
  [][(last'.op = "update" /\ ~InBounds(last'.index)) =>
       UNCHANGED <<startIndex, endIndex, selecting, blocks, mouseDown>>]_vars

C7_Witness ==
  /\ last.op = "update"
  /\ last.index = blockCount
  /\ selecting
  /\ blockCount >= 2
  /\ endIndex < blockCount - 1

\* The serializations of the blocks at the positions lo..hi, joined by a
\* newline: the block at lo + k sits at 2k + 1, a newline at every even place.
exportOf(lo, hi) ==
  IF hi < lo THEN <<>>
  ELSE [k \in 1..(2 * (hi - lo) + 1) |->
          IF k % 2 = 0 THEN "\n" ELSE blocks[lo + ((k - 1) \div 2) + 1].blockID]

\* C8: clipboard export over an active selection is the serializations of
\* exactly the blocks at positions lowIndex..highIndex, in ascending order,
\* joined by a single newline, whatever the direction of the gesture.
C8_ClipboardOrdered ==
  (Handled("copy") /\ selecting) =>
    innerHTML = exportOf(Max(lowIndex, 0), Min(highIndex, blockCount - 1))

C8_Witness ==
  /\ Handled("copy")
  /\ selecting
  /\ InBounds(startIndex) /\ InBounds(endIndex)
  /\ endIndex < startIndex
  /\ startIndex < blockCount - 1
  /\ Len(innerHTML) = 3

\* C9: a cancel keeps the indices, makes the selection inactive and leaves
\* no position selected or highlighted; a cancel right after a cancel
\* changes nothing.
C9_CancelIdempotent ==
  [][last'.op = "cancel" =>
       /\ startIndex' = startIndex /\ endIndex' = endIndex
       /\ ~selecting'
       /\ ~mouseDown'
       /\ \A i \in Positions : ~contains(i)' /\ ~blocks'[i + 1].selected
       /\ last.op = "cancel" =>
            UNCHANGED <<blocks, startIndex, endIndex, selecting, mouseDown, copyArea>>]_vars

C9_Witness ==
  /\ last.op = "cancel"
  /\ last.follows
  /\ ~selecting
  /\ InBounds(startIndex) /\ InBounds(endIndex)
  /\ startIndex > 0
  /\ startIndex # endIndex
  /\ noneHighlighted

\* A copy request: the copy chord, or the selection:copy bus event.
copyRequested == last.op = "copy" \/ (last.op = "keydown" /\ last.ctrl /\ last.key = "c")

\* C10: in the Idle state a copy request writes no block's serialization
\* into the copy area and changes no selection state.
C10_IdleCopyNoOp ==
  [][(~selecting /\ copyRequested') =>
       /\ innerHTML' = <<>>
       /\ UNCHANGED <<startIndex, endIndex, selecting, mouseDown, blocks>>]_vars

\* The names of the bus events of the selection namespace in trace, in the
\* order of their publication.
selectionEvents ==
  [k \in 1..Len(SelectSeq(trace, LAMBDA e : e.name \in {"selection:complete", "selection:cancel"})) |->
     SelectSeq(trace, LAMBDA e : e.name \in {"selection:complete", "selection:cancel"})[k].name]

\* C11: a mouse-up while no pointer is held publishes selection:complete and
\* then selection:cancel, and leaves the controller Idle with no block
\* highlighted.
C11_PlainClickCancels ==
  [][(~mouseDown /\ last'.op = "mouseup") =>
       /\ selectionEvents' = <<"selection:complete", "selection:cancel">>
       /\ fault' = "none"
       /\ ~selecting'
       /\ ~mouseDown'
       /\ \A k \in 1..Len(blocks') : ~blocks'[k].selected]_vars

C11_Witness ==
  /\ last.op = "mouseup"
  /\ last.active
  /\ Len(published("selection:cancel")) = 1
  /\ ~selecting
  /\ blockCount >= 2
  /\ InBounds(startIndex) /\ InBounds(endIndex)
  /\ startIndex # endIndex
  /\ noneHighlighted

\* The last event was a selection:block for a block the document does not hold.
unknownBlockFocused == last.op = "block" /\ last.blockID \notin usedIDs(blocks)

\* C12: a block-focus event for a block that is not in the Block Sequence
\* causes no fault and never leaves the selection active with startIndex or
\* endIndex outside [0, blockCount-1].
C12_UnknownBlockIgnored ==
  unknownBlockFocused =>
    /\ fault = "none"
    /\ selecting => InBounds(startIndex) /\ InBounds(endIndex)

\* The last event was an Up or Down arrow key, without Ctrl/Meta, that
\* arrived while the selection was active.
arrowInSelecting ==
  last.op = "keydown" /\ ~last.ctrl /\ last.active /\ (isDown(last.key) \/ isUp(last.key))

\* C13: handling an Up or Down arrow key while the selection is active
\* never reads a block outside [0, blockCount-1] and completes without an
\* error.
C13_ArrowKeysNeverFault ==
  arrowInSelecting => fault = "none"

\* The last event was Shift+Down (no Alt, no Ctrl/Meta).
shiftDownPressed ==
  last.op = "keydown" /\ ~last.ctrl /\ last.shift /\ ~last.alt /\ isDown(last.key)

\* C14: in the Selecting state a Shift+Down press moves endIndex by +1 when
\* endIndex+1 is within bounds and otherwise leaves it unchanged, changes
\* neither startIndex nor the active flag, and leaves endIndex <= blockCount-1.
C14_ShiftDownSticksAtEnd ==
  [][(selecting /\ shiftDownPressed') =>
       /\ endIndex' = IF InBounds(endIndex + 1) THEN endIndex + 1 ELSE endIndex
       /\ startIndex' = startIndex
       /\ selecting'
       /\ endIndex' <= blockCount - 1]_vars

\* The last event was Alt+Down (no Shift, no Ctrl/Meta).
altDownPressed ==
  last.op = "keydown" /\ ~last.ctrl /\ ~last.shift /\ last.alt /\ isDown(last.key)

\* C15 as claimed: in the Selecting state Alt+Down collapses the selection
\* to the block at the previous highIndex and the selection stays active.
C15_AltDownCollapsesToHighIndex ==
  [][(selecting /\ altDownPressed') =>
       startIndex' = highIndex /\ endIndex' = highIndex /\ selecting']_vars

\* C15 as amended: in the Selecting state Alt+Down collapses the selection
\* to the last position of the document, startIndex = endIndex =
\* blockCount-1, and the selection stays active.
C15_AltDownCollapsesToDocumentEnd ==
  (altDownPressed /\ last.active) =>
    startIndex = blockCount - 1 /\ endIndex = blockCount - 1 /\ selecting

C15_Witness ==
  /\ altDownPressed
  /\ last.active
  /\ blockCount >= 3
  /\ startIndex = blockCount - 1
  /\ endIndex = blockCount - 1
  /\ blocks[blockCount].selected
  /\ ~blocks[1].selected
  /\ fault = "none"

\* The last event was an Up or Down arrow with no modifier at all, pressed
\* while the selection was active.
plainArrowInSelecting(down) ==
  /\ last.op = "keydown" /\ ~last.ctrl /\ ~last.shift /\ ~last.alt
  /\ last.active
  /\ IF down THEN isDown(last.key) ELSE isUp(last.key)

\* The handler published exactly one forced focus request, for the block at
\* position index.
focusRequested(name, index) ==
  /\ InBounds(index)
  /\ published(name) = <<EvBlock(name, blocks[index + 1].blockID, "force")>>

\* C16: in the Selecting state an unmodified Down-arrow publishes
\* block:focusNext for the block at highIndex with the force flag, an
\* unmodified Up-arrow publishes block:focusPrevious for the block at
\* lowIndex, and either leaves the selection inactive.
C16_PlainArrowFocusesNeighbour ==
  /\ plainArrowInSelecting(TRUE) =>
       ~selecting /\ focusRequested("block:focusNext", highIndex)
  /\ plainArrowInSelecting(FALSE) =>
       ~selecting /\ focusRequested("block:focusPrevious", lowIndex)

\* The last event was the cut/delete chord with selectionDelete enabled:
\* onKeyDown published selection:delete.
deleteChordHandled ==
  /\ last.op = "keydown" /\ last.ctrl /\ last.key = "x"
  /\ Len(published("selection:delete")) > 0

\* C17: after the cut/delete chord is handled with selectionDelete enabled
\* the controller is Idle: the selection is inactive and no block left in
\* the document is selected.
C17_DeleteChordLeavesIdle ==
  deleteChordHandled => ~selecting /\ noneHighlighted

\* The last event was an Up or Down arrow without Ctrl/Meta, with any
\* combination of Shift and Alt.
arrowPressed ==
  last.op = "keydown" /\ ~last.ctrl /\ (isDown(last.key) \/ isUp(last.key))

\* C18: when the selection is not active, an Up or Down arrow with any
\* combination of Shift and Alt and no Ctrl/Meta changes neither startIndex,
\* endIndex, the active flag nor the pointer-held flag, and publishes
\* nothing on the bus.
C18_IdleArrowNoOp ==
  [][(~selecting /\ arrowPressed') =>
       /\ UNCHANGED <<startIndex, endIndex, selecting, mouseDown, blocks, copyArea>>
       /\ trace' = <<>>
       /\ fault' = "none"]_vars

C18_Witness ==
  /\ arrowPressed
  /\ last.shift
  /\ ~last.active
  /\ ~selecting
  /\ trace = <<>>
  /\ blockCount >= 2
  /\ startIndex # endIndex
  /\ InBounds(startIndex) /\ InBounds(endIndex)

\* The last event cancels whatever the pointer does: selection:cancel
\* published on the bus, or an Up/Down arrow with no modifier.
cancelRequested ==
  \/ last.op = "cancel"
  \/ arrowPressed /\ ~last.shift /\ ~last.alt

\* C19: once active, the selection stays active until an explicit cancel:
\* update, expand, complete, copy and a mouse-up with the pointer held never
\* clear the active flag; it goes from true to false only on the cancel of a
\* plain click (mouse-up with no pointer held before it), of an unmodified
\* Up/Down arrow, or of the cancel event.
C19_ActiveUntilCancelled ==
  [][(selecting /\ ~selecting') =>
       \/ cancelRequested'
       \/ last'.op = "mouseup" /\ ~mouseDown]_vars

C19_Witness ==
  /\ last.op = "mouseup"
  /\ last.active
  /\ published("selection:cancel") = <<>>
  /\ Len(published("selection:complete")) = 1
  /\ selecting
  /\ ~mouseDown
  /\ blockCount >= 2
  /\ InBounds(startIndex) /\ InBounds(endIndex)
  /\ startIndex # endIndex

\* Every block of the current document is highlighted exactly when the
\* selection is active and its position lies in [lowIndex, highIndex].
rendered ==
  \A i \in Positions :
    blocks[i + 1].selected = (selecting /\ lowIndex <= i /\ i <= highIndex)

\* The identifiers of the document, in document order.
blockList == [k \in 1..blockCount |-> blocks[k].blockID]

\* The last event was handled by the selection controller: a bus event, a
\* key press or a mouse-up, not a change made by the block manager.
controllerEvent == last.op \notin {"init", "blockAdded", "blockRemoved"}

\* C20: after every event handled by the controller that changes
\* startIndex, endIndex, the active flag or the block list, every block
\* position i of the current document is highlighted exactly when the
\* selection is active and lowIndex <= i <= highIndex.
C20_RenderFollowsRange ==
  [][(/\ controllerEvent'
      /\ \/ startIndex' # startIndex
         \/ endIndex' # endIndex
         \/ selecting' # selecting
         \/ blockList' # blockList) => rendered']_vars

C20_Witness ==
  /\ shiftDownPressed
  /\ last.active
  /\ fault = "none"
  /\ selecting
  /\ blockCount = 3
  /\ startIndex = 0
  /\ endIndex = 1
  /\ blocks[1].selected
  /\ blocks[2].selected
  /\ ~blocks[3].selected

====
